---- MODULE Spec2Model ----
(***************************************************************************)
(* Daily Menu: the lunch recommender (recommender.py) and its visit store  *)
(* (database.py), as the state machine the application (app.py) drives.    *)
(*                                                                         *)
(* Representation:                                                         *)
(*  - a datetime is the ordinal of its day within 2026 (1 = 2026-01-01);   *)
(*    the time of day never changes a result below: every datetime is     *)
(*    formatted to a date or floored to whole days before it is used;      *)
(*  - a "%Y-%m-%d" string is the triple <<year, month, day>> of its three  *)
(*    zero-padded fields, compared field by field as the string compares   *)
(*    character by character;                                              *)
(*  - a text that is lower-cased (specific_day, a day label) is the        *)
(*    sequence of its characters; other texts are TLA+ strings;            *)
(*  - a score is an integer count of 1/480 (30 * 16 = 40 * 12 = 480);      *)
(*    a monthly average is an integer count of tenths once rounded.        *)
(***************************************************************************)
EXTENDS Integers, Sequences, FiniteSets, TLC

VARIABLES
    today,        \* datetime.now(), as a day ordinal
    configured,   \* _get_github_config() is not None
    localFile,    \* visit_history.json next to the code
    remoteFile,   \* visit_history.json in the GitHub repository
    restaurants,  \* st.session_state.restaurants
    history,      \* st.session_state.history["visits"]
    last,         \* the operation that ran last, with its arguments
    out           \* what that operation returned

vars == <<today, configured, localFile, remoteFile, restaurants, history, last, out>>

(***************************************************************************)
(* Bounds of the model.                                                    *)
(***************************************************************************)
MaxVisits == 2        \* add_visit is not taken on a list this long
MaxMonthVisits == 21  \* the longest month of visits the scorer is given

\* Python's None where a dict is expected, and where a date string is; what
\* a call returns is kept in `out` as a record: a recommendation dict or
\* None, [ok |-> the truth value add_visit or delete_visit returns],
\* [list |-> the list get_all_recommendations returns]
None == [none |-> TRUE]
NoDate == <<>>

(***************************************************************************)
(* Calendar of 2026: datetime <-> "%Y-%m-%d".                              *)
(***************************************************************************)
MonthLen == <<31, 28, 31, 30, 31, 30, 31, 31, 30, 31, 30, 31>>

RECURSIVE DaysBeforeMonth(_)
DaysBeforeMonth(m) == IF m = 1 THEN 0 ELSE DaysBeforeMonth(m - 1) + MonthLen[m - 1]

\* the days of the year before each month
DaysBeforeTable == [m \in 1..12 |-> DaysBeforeMonth(m)]

DaysBefore(m) == DaysBeforeTable[m]

RECURSIVE MonthOf(_, _)
MonthOf(ord, m) == IF ord <= DaysBefore(m) + MonthLen[m] THEN m ELSE MonthOf(ord, m + 1)

\* the date of each day of the year
StrftimeTable ==
    [ord \in 1..365 |-> LET m == MonthOf(ord, 1) IN <<2026, m, ord - DaysBefore(m)>>]

\* date.strftime("%Y-%m-%d")
Strftime(ord) == StrftimeTable[ord]

\* datetime.strptime(s, "%Y-%m-%d")
Strptime(s) == DaysBefore(s[2]) + s[3]

\* date.weekday(): Monday is 0, Sunday is 6; 2026-01-01 is a Thursday
Weekday(ord) == (ord + 2) % 7

\* s >= t on "%Y-%m-%d" strings
StrGeq(s, t) ==
    \/ s[1] > t[1]
    \/ s[1] = t[1] /\ s[2] > t[2]
    \/ s[1] = t[1] /\ s[2] = t[2] /\ s[3] >= t[3]

\* s.startswith(f"{year:04d}-{month:02d}")
StartsWithMonth(s, year, month) == s[1] = year /\ s[2] = month

\* max(...) of a non-empty set of "%Y-%m-%d" strings
MaxStr(S) == CHOOSE s \in S : \A t \in S : StrGeq(s, t)

(***************************************************************************)
(* str.lower() on sequences of characters.                                 *)
(***************************************************************************)
UpperCase == <<"A","B","C","D","E","F","G","H","I","J","K","L","M",
               "N","O","P","Q","R","S","T","U","V","W","X","Y","Z">>
LowerCase == <<"a","b","c","d","e","f","g","h","i","j","k","l","m",
               "n","o","p","q","r","s","t","u","v","w","x","y","z">>

\* the lower-case letter of each upper-case one
LowerOf ==
    [c \in {UpperCase[i] : i \in DOMAIN UpperCase} |->
        LowerCase[CHOOSE i \in DOMAIN UpperCase : UpperCase[i] = c]]

LowerChar(c) == IF c \in DOMAIN LowerOf THEN LowerOf[c] ELSE c

Lower(s) == [i \in DOMAIN s |-> LowerChar(s[i])]

(***************************************************************************)
(* recommender.py: the day classifier.                                     *)
(***************************************************************************)
Sunday    == <<"S","u","n","d","a","y">>
Monday    == <<"M","o","n","d","a","y">>
Tuesday   == <<"T","u","e","s","d","a","y">>
Wednesday == <<"W","e","d","n","e","s","d","a","y">>
Thursday  == <<"T","h","u","r","s","d","a","y">>
Friday    == <<"F","r","i","d","a","y">>

\* a week that works on Fridays too
WORK_DAYS_with_friday ==
    (6 :> Sunday) @@ (0 :> Monday) @@ (1 :> Tuesday) @@ (2 :> Wednesday) @@ (3 :> Thursday)
        @@ (4 :> Friday)

WORK_DAYS == (6 :> Sunday) @@ (0 :> Monday) @@ (1 :> Tuesday) @@ (2 :> Wednesday) @@ (3 :> Thursday)
THURSDAY == 3

get_day_name(date) ==
    IF Weekday(date) \in DOMAIN WORK_DAYS THEN WORK_DAYS[Weekday(date)] ELSE <<>>

is_work_day(date) == Weekday(date) \in DOMAIN WORK_DAYS

is_thursday(date) == Weekday(date) = THURSDAY

(***************************************************************************)
(* Rounding. round(x, ndigits) rounds to the nearest multiple, and a score *)
(* exactly half way (every such score met here is a multiple of 1/8, which *)
(* a float holds exactly) goes to the even neighbour; an average half way  *)
(* goes where the float of the quotient lies.                              *)
(***************************************************************************)
\* round(num / den * units): the nearest integer to num * units / den
RoundHalfEven(num, den) ==
    LET q == num \div den
        r == num % den
    IN  IF 2 * r < den THEN q
        ELSE IF 2 * r > den THEN q + 1
        ELSE IF q % 2 = 0 THEN q ELSE q + 1

\* the float total / count against the quotient itself: 1 if the float is
\* above it, -1 if below, 0 if it is the quotient. A float keeps 53 bits:
\* with 2^k <= total / count < 2^(k+1), it is the multiple of 2^(k-52)
\* nearest to the quotient.
RECURSIVE Log2Floor(_, _)
Log2Floor(total, count) == IF total < 2 * count THEN 0 ELSE 1 + Log2Floor(total, 2 * count)

RECURSIVE Log2Below(_, _)
Log2Below(total, count) == IF total >= count THEN 0 ELSE 1 + Log2Below(2 * total, count)

\* (r * 2^e) % count
RECURSIVE ModShift(_, _, _)
ModShift(r, e, count) == IF e = 0 THEN r ELSE ModShift((2 * r) % count, e - 1, count)

FloatError(total, count) ==
    IF total = 0 THEN 0
    ELSE LET k == IF total >= count THEN Log2Floor(total, count)
                  ELSE 0 - Log2Below(total, count)
             r == ModShift(total % count, 52 - k, count)
         IN  IF r = 0 THEN 0 ELSE IF 2 * r > count THEN 1 ELSE -1

\* round(total / count, 1), in tenths: the tenth nearest to the float; a
\* quotient half way between two tenths goes where its float lies
Round1(total, count) ==
    LET q == (total * 10) \div count
        r == (total * 10) % count
    IN  IF 2 * r < count THEN q
        ELSE IF 2 * r > count THEN q + 1
        ELSE IF FloatError(total, count) > 0 THEN q + 1
        ELSE IF FloatError(total, count) < 0 THEN q
        ELSE IF q % 2 = 0 THEN q ELSE q + 1

\* round(score, 2) of a score counted in 1/480, in hundredths
Round2(score) == RoundHalfEven(score * 100, 480)

RECURSIVE SumPrices(_)
SumPrices(visits) ==
    IF visits = <<>> THEN 0 ELSE Head(visits).price + SumPrices(Tail(visits))

(***************************************************************************)
(* recommender.py: the history aggregator.                                 *)
(***************************************************************************)
\* every visit, whatever its month
get_month_visits_any_month(visits, now) == visits

get_month_visits(visits, now) ==
    LET year  == Strftime(now)[1]
        month == Strftime(now)[2]
    IN  SelectSeq(visits, LAMBDA v : StartsWithMonth(v.date, year, month))

get_monthly_stats(visits, now) ==
    LET month_visits == get_month_visits(visits, now)
        days_visited == Len(month_visits)
        total_spent  == SumPrices(month_visits)
    IN  IF month_visits = <<>>
        THEN [days_visited |-> 0, total_spent |-> 0, current_average |-> 0,
              status |-> "green", target_daily |-> 225]
        ELSE [days_visited |-> days_visited,
              total_spent |-> total_spent,
              current_average |-> Round1(total_spent, days_visited),
              status |-> IF total_spent < 20 * days_visited THEN "green"
                         ELSE IF total_spent <= 25 * days_visited THEN "yellow"
                         ELSE "red",
              target_daily |-> 225]

(***************************************************************************)
(* recommender.py: recent visits, availability, days since a visit.        *)
(***************************************************************************)
\* the day of the cutoff itself left out
get_recent_visits_strict(visits, days, now) ==
    LET cutoff == Strftime(now - days)
    IN  SelectSeq(visits, LAMBDA v : StrGeq(v.date, cutoff) /\ v.date # cutoff)

get_recent_visits(visits, days, now) ==
    LET cutoff == Strftime(now - days)
    IN  SelectSeq(visits, LAMBDA v : StrGeq(v.date, cutoff))

get_recent_restaurant_names(visits, days, now) ==
    LET recent == get_recent_visits(visits, days, now)
    IN  {recent[i].restaurant : i \in DOMAIN recent}

\* every row on a work day, whatever its specific_day
get_available_restaurants_unfiltered(rows, date) ==
    IF get_day_name(date) = <<>> THEN <<>> ELSE rows

get_available_restaurants(rows, date) ==
    LET day_name == get_day_name(date)
    IN  IF day_name = <<>>
        THEN <<>>
        ELSE SelectSeq(rows, LAMBDA r :
                 \/ r.specific_day = <<>>
                 \/ Lower(r.specific_day) = Lower(day_name))

get_days_since_visit(restaurant_name, visits, now) ==
    LET restaurant_visits == SelectSeq(visits, LAMBDA v : v.restaurant = restaurant_name)
    IN  IF restaurant_visits = <<>>
        THEN 999
        ELSE LET last_visit == MaxStr({restaurant_visits[i].date : i \in DOMAIN restaurant_visits})
             IN  now - Strptime(last_visit)

(***************************************************************************)
(* recommender.py: the scorer. Scores are counted in 1/480.                *)
(***************************************************************************)
Min(a, b) == IF a <= b THEN a ELSE b

\* min(x, 30) / 30
recency_score(days_since_visit) == Min(days_since_visit, 30) * 16

\* the two budget formulas taken for each other
budget_score_swapped(price, current_avg, thursday) ==
    IF thursday THEN 240
    ELSE IF current_avg > 250 THEN price * 12
    ELSE IF current_avg < 200 THEN 480 - price * 12
    ELSE 240

\* current_avg is stats["current_average"], in tenths
budget_score(price, current_avg, thursday) ==
    IF thursday THEN 240
    ELSE IF current_avg > 250 THEN 480 - price * 12
    ELSE IF current_avg < 200 THEN price * 12
    ELSE 240

\* the blend on Thursdays too
final_score_always_blended(recency, budget, thursday) ==
    (recency + budget) \div 2

final_score(recency, budget, thursday) ==
    IF thursday THEN recency ELSE (recency + budget) \div 2

calculate_scores(rows, visits, date, now) ==
    LET stats    == get_monthly_stats(visits, now)
        thursday == is_thursday(date)
    IN  [i \in DOMAIN rows |->
            LET r       == rows[i]
                days    == get_days_since_visit(r.name, visits, now)
                recency == recency_score(days)
                budget  == budget_score(r.price, stats.current_average, thursday)
            IN  [name |-> r.name, area |-> r.area, specific_day |-> r.specific_day,
                 item |-> r.item, travel_time |-> r.travel_time, price |-> r.price,
                 days_since_visit |-> days,
                 recency_score |-> recency,
                 budget_score |-> budget,
                 final_score |-> final_score(recency, budget, thursday)]]

(***************************************************************************)
(* recommender.py: the recommender. sort_values gives no order to rows of  *)
(* equal final_score, so each function is the set of results it may return.*)
(***************************************************************************)
\* get_recommendation: available, minus the recently visited, or all the
\* available ones when that leaves nothing
recommendation_candidates(rows, visits, date, now) ==
    LET available == get_available_restaurants(rows, date)
        recent_restaurants == get_recent_restaurant_names(visits, 7, now)
        filtered == SelectSeq(available, LAMBDA r : r.name \notin recent_restaurants)
    IN  IF filtered = <<>> THEN get_available_restaurants(rows, date) ELSE filtered

\* the recently visited left in
all_candidates_with_recent(rows, visits, date, now) ==
    get_available_restaurants(rows, date)

\* get_all_recommendations: the same, written a second time in the source
all_candidates(rows, visits, date, now) ==
    LET available == get_available_restaurants(rows, date)
        recent_restaurants == get_recent_restaurant_names(visits, 7, now)
        filtered == SelectSeq(available, LAMBDA r : r.name \notin recent_restaurants)
    IN  IF filtered = <<>> THEN available ELSE filtered

\* the orders sort_values("final_score", ascending=False) may give the rows
sort_values(scored) ==
    {p \in [DOMAIN scored -> DOMAIN scored] :
        /\ \A i, j \in DOMAIN scored : i # j => p[i] # p[j]
        /\ \A i, j \in DOMAIN scored :
              i < j => scored[p[i]].final_score >= scored[p[j]].final_score}

recommendation_dict(top) ==
    [name |-> top.name, area |-> top.area, item |-> top.item, price |-> top.price,
     travel_time |-> top.travel_time, days_since_visit |-> top.days_since_visit,
     recency_score |-> Round2(top.recency_score),
     budget_score |-> Round2(top.budget_score),
     final_score |-> Round2(top.final_score)]

\* no recommendation when every available restaurant was visited recently
get_recommendation_no_repeats(rows, visits, date, now) ==
    LET available == get_available_restaurants(rows, date)
        recent    == get_recent_restaurant_names(visits, 7, now)
    IN  IF ~is_work_day(date) \/ available = <<>> THEN {None}
        ELSE IF SelectSeq(available, LAMBDA r : r.name \notin recent) = <<>> THEN {None}
        ELSE LET scored == calculate_scores(
                               recommendation_candidates(rows, visits, date, now),
                               visits, date, now)
             IN  {recommendation_dict(scored[p[1]]) : p \in sort_values(scored)}

get_recommendation(rows, visits, date, now) ==
    IF ~is_work_day(date) THEN {None}
    ELSE IF get_available_restaurants(rows, date) = <<>> THEN {None}
    ELSE LET scored == calculate_scores(recommendation_candidates(rows, visits, date, now), visits, date, now)
         IN  {recommendation_dict(scored[p[1]]) : p \in sort_values(scored)}

alternative_dict(row) ==
    [name |-> row.name, area |-> row.area, item |-> row.item, price |-> row.price,
     travel_time |-> row.travel_time, days_since_visit |-> row.days_since_visit,
     final_score |-> Round2(row.final_score)]

get_all_recommendations(rows, visits, date, limit, now) ==
    IF ~is_work_day(date) THEN {<<>>}
    ELSE IF get_available_restaurants(rows, date) = <<>> THEN {<<>>}
    ELSE LET scored == calculate_scores(all_candidates(rows, visits, date, now), visits, date, now)
         IN  {[i \in 1..Min(limit, Len(scored)) |-> alternative_dict(scored[p[i]])] :
                 p \in sort_values(scored)}

(***************************************************************************)
(* recommender.py: the explainer. The text is the sequence of its clauses, *)
(* each a template with the values it interpolates.                        *)
(***************************************************************************)
recency_clause(days) ==
    IF days >= 999 THEN <<[clause |-> "never"]>>
    ELSE IF days > 14 THEN <<[clause |-> "been_days", days |-> days]>>
    ELSE IF days > 7 THEN <<[clause |-> "last_visited", days |-> days]>>
    ELSE <<>>

\* a clause for each of the three bands, whatever the price
budget_clause_per_band(price, avg, thursday) ==
    IF ~thursday
    THEN IF avg > 250 THEN <<[clause |-> "over", price |-> price, avg |-> avg]>>
         ELSE IF avg < 200 THEN <<[clause |-> "under", avg |-> avg]>>
         ELSE <<[clause |-> "on_track", avg |-> avg]>>
    ELSE <<[clause |-> "thursday"]>>

budget_clause(price, avg, thursday) ==
    IF ~thursday
    THEN IF avg > 250 THEN <<[clause |-> "over", price |-> price, avg |-> avg]>>
         ELSE IF avg < 200 /\ price > 25 THEN <<[clause |-> "under", avg |-> avg]>>
         ELSE IF 200 <= avg /\ avg <= 250 THEN <<[clause |-> "on_track", avg |-> avg]>>
         ELSE <<>>
    ELSE <<[clause |-> "thursday"]>>

explain_recommendation(recommendation, visits, date, now) ==
    LET stats == get_monthly_stats(visits, now)
    IN  recency_clause(recommendation.days_since_visit)
        \o budget_clause(recommendation.price, stats.current_average, is_thursday(date))

(***************************************************************************)
(* database.py: the visit store. A file is absent or holds a visit list.   *)
(* A request to GitHub may answer anything: get_ok, sha_ok and put_ok say  *)
(* whether the GET of load_history, the GET of save_history and its PUT    *)
(* are answered 200 (201 for a PUT that creates the file).                 *)
(***************************************************************************)
NoFile == [exists |-> FALSE, visits |-> <<>>]
File(visits) == [exists |-> TRUE, visits |-> visits]

load_history(get_ok) ==
    IF configured /\ get_ok /\ remoteFile.exists THEN remoteFile.visits
    ELSE IF localFile.exists THEN localFile.visits
    ELSE <<>>

\* GitHub accepts the PUT of an existing file only with its current sha
put_accepted(sha_ok, put_ok) ==
    put_ok /\ (remoteFile.exists => sha_ok)

\* success whenever the local file was written
save_result_local_only(sha_ok, put_ok) == TRUE

\* the value save_history returns, as a truth value
save_result(sha_ok, put_ok) ==
    IF ~configured THEN TRUE ELSE put_accepted(sha_ok, put_ok)

\* the files save_history leaves: the local one is always written first
save_history(visits, sha_ok, put_ok) ==
    /\ localFile' = File(visits)
    /\ remoteFile' = IF configured /\ put_accepted(sha_ok, put_ok)
                     THEN File(visits) ELSE remoteFile

new_visit(restaurant, price, item, date) ==
    [date |-> IF date = NoDate THEN Strftime(today) ELSE date,
     restaurant |-> restaurant, price |-> price, item |-> item]

\* every visit of the date, whatever the restaurant
without_visit_by_date(visits, date, restaurant) ==
    SelectSeq(visits, LAMBDA v : ~(v.date = date))

without_visit(visits, date, restaurant) ==
    SelectSeq(visits, LAMBDA v : ~(v.date = date /\ v.restaurant = restaurant))

(***************************************************************************)
(* The inputs the model draws from.                                        *)
(***************************************************************************)
Oct28 == DaysBefore(10) + 28   \* a Wednesday
Oct29 == DaysBefore(10) + 29   \* a Thursday
Oct30 == DaysBefore(10) + 30   \* a Friday
Days  == {Oct28, Oct29, Oct30}

\* the date argument of add_visit: absent (today), or 33 days and more
\* back, or a week before Oct28 to the day, or a date still to come
DateArgs == {NoDate, <<2026, 9, 25>>, <<2026, 10, 21>>, <<2026, 11, 5>>}
Limits   == {2, 5}

Row(name, specific_day, price) ==
    [name |-> name, area |-> "Area", specific_day |-> specific_day,
     item |-> "Meal", travel_time |-> 10, price |-> price]

RowA == Row("A", <<>>, 15)
RowB == Row("B", <<>>, 35)
RowC == Row("C", <<"t","h","u","r","s","d","a","y">>, 35)
RowD == Row("D", Friday, 15)
RowE == Row("E", <<>>, 70)

\* the contents of data.tsv
RestaurantSets ==
    { <<>>, <<RowD>>, <<RowA, RowB, RowC, RowD>>, <<RowA, RowE, RowC>>, <<RowB, RowE>> }

VisitArg(restaurant, price, date) ==
    [restaurant |-> restaurant, price |-> price, item |-> "Meal", date |-> date]

\* what app.py logs: a row's name, price and item; with any date
VisitArgs == {VisitArg(r.name, r.price, d) : r \in {RowA, RowB}, d \in DateArgs}
\* what app.py deletes: the (date, restaurant) of a row of the history shown
VisitKeys == {<<history[i].date, history[i].restaurant>> : i \in DOMAIN history}

\* a smaller set for the store, where only (date, restaurant) matters
StoreVisitArgs ==
    {VisitArg("A", 15, NoDate), VisitArg("B", 15, NoDate), VisitArg("A", 15, <<2026, 10, 21>>)}
StoreVisitKeys ==
    {<<Strftime(Oct28), "A">>, <<Strftime(Oct28), "B">>, <<<<2026, 10, 21>>, "A">>}

\* data.tsv with prices about the two thresholds of the budget
RowP == Row("P", <<>>, 25)
RowQ == Row("Q", <<>>, 26)
RowR == Row("R", <<>>, 20)
RowS == Row("S", <<>>, 19)
BandRows == <<RowP, RowQ, RowR, RowS>>

\* what add_visit leaves after n days of the month: n - 1 visits to one
\* restaurant and the last one to another
MonthOfVisits(n, usual, other) ==
    [i \in 1..n |->
        LET r == IF i = n THEN other ELSE usual
        IN  [date |-> <<2026, 10, i>>, restaurant |-> r.name, price |-> r.price,
             item |-> r.item]]

MonthHistories ==
    {MonthOfVisits(n, usual, other) :
        n \in 0..MaxMonthVisits, usual \in {RowP, RowR}, other \in {RowP, RowQ, RowR, RowS}}

Call(op) ==
    [op |-> op, date |-> <<>>, restaurant |-> "", loaded |-> <<>>, saved |-> <<>>,
     pushed |-> "none", after_add |-> FALSE, prior |-> <<>>, reread |-> FALSE, limit |-> 0]

(***************************************************************************)
(* The state machine.                                                      *)
(***************************************************************************)
Init ==
    /\ today = Oct28
    /\ configured = FALSE
    /\ localFile = NoFile
    /\ remoteFile = NoFile
    /\ restaurants \in RestaurantSets
    /\ history = <<>>
    /\ last = Call("init_session_state")
    /\ out = None

\* the answers a request may get: no request is made without a
\* configuration, and a GET is answered 200 only for a file that is there
Answers == IF configured THEN BOOLEAN ELSE {FALSE}
GetAnswers(file) == IF configured /\ file.exists THEN BOOLEAN ELSE {FALSE}

\* time passes
Tick ==
    /\ \E d \in Days : d > today /\ today' = d
    /\ last' = Call("tick")
    /\ out' = None
    /\ UNCHANGED <<configured, localFile, remoteFile, restaurants, history>>

\* app.py refresh_data: data.tsv is read again, and the history
RefreshData ==
    \E get_ok \in GetAnswers(remoteFile) :
        /\ history' = load_history(get_ok)
        /\ last' = Call("refresh_data")
        /\ out' = None
        /\ UNCHANGED <<today, configured, localFile, remoteFile, restaurants>>

Pushed(sha_ok, put_ok) ==
    IF ~configured THEN "none" ELSE IF put_accepted(sha_ok, put_ok) THEN "ok" ELSE "failed"

\* the session's history kept as it was: no refresh_data after a save
reloaded_stale(get_ok) == history

\* load_history as refresh_data runs it right after a save
reloaded(get_ok) ==
    IF configured /\ get_ok /\ remoteFile'.exists THEN remoteFile'.visits
    ELSE localFile'.visits

\* add_visit, and then as app.py does: refresh_data() if it reported success
AddVisit(args) ==
    \E a \in args, get_ok, sha_ok \in GetAnswers(remoteFile), put_ok \in Answers :
        LET loaded == load_history(get_ok)
            visit  == new_visit(a.restaurant, a.price, a.item, a.date)
            saved  == Append(loaded, visit)
        IN  /\ Len(loaded) < MaxVisits
            /\ save_history(saved, sha_ok, put_ok)
            /\ out' = [ok |-> save_result(sha_ok, put_ok)]
            /\ \E reload_ok \in GetAnswers(remoteFile') :
                   history' = IF save_result(sha_ok, put_ok)
                              THEN reloaded(reload_ok)
                              ELSE history
            /\ last' = [Call("add_visit") EXCEPT
                           !.date = visit.date, !.restaurant = a.restaurant,
                           !.loaded = loaded, !.saved = saved,
                           !.pushed = Pushed(sha_ok, put_ok)]
            /\ UNCHANGED <<today, configured, restaurants>>

\* delete_visit, and then as app.py does: refresh_data()
DeleteVisit(keys) ==
    \E k \in keys, get_ok, sha_ok \in GetAnswers(remoteFile), put_ok \in Answers :
        LET date       == k[1]
            restaurant == k[2]
            loaded     == load_history(get_ok)
            saved      == without_visit(loaded, date, restaurant)
            after_add  == /\ last.op = "add_visit"
                          /\ last.date = date
                          /\ last.restaurant = restaurant
        IN  /\ save_history(saved, sha_ok, put_ok)
            /\ out' = [ok |-> save_result(sha_ok, put_ok)]
            /\ \E reload_ok \in GetAnswers(remoteFile') :
                   history' = reloaded(reload_ok)
            /\ last' = [Call("delete_visit") EXCEPT
                           !.date = date, !.restaurant = restaurant,
                           !.saved = saved,
                           !.pushed = Pushed(sha_ok, put_ok),
                           !.after_add = after_add,
                           !.prior = IF after_add THEN last.loaded ELSE <<>>,
                           !.reread = after_add /\ loaded = last.saved]
            /\ UNCHANGED <<today, configured, restaurants>>

GetRecommendation ==
    /\ out' \in get_recommendation(restaurants, history, today, today)
    /\ last' = Call("get_recommendation")
    /\ UNCHANGED <<today, configured, localFile, remoteFile, restaurants, history>>

GetAllRecommendations ==
    \E limit \in Limits :
        /\ \E list \in get_all_recommendations(restaurants, history, today, limit, today) :
               out' = [list |-> list]
        /\ last' = [Call("get_all_recommendations") EXCEPT !.limit = limit]
        /\ UNCHANGED <<today, configured, localFile, remoteFile, restaurants, history>>

\* app.py explains the recommendation it has just been given
ExplainRecommendation ==
    /\ last.op = "get_recommendation"
    /\ out # None
    /\ out' = [recommendation |-> out,
               parts |-> explain_recommendation(out, history, today, today)]
    /\ last' = Call("explain_recommendation")
    /\ UNCHANGED <<today, configured, localFile, remoteFile, restaurants, history>>

\* app.py shows the month's statistics of the history it holds
GetMonthlyStats ==
    /\ out' = get_monthly_stats(history, today)
    /\ last' = Call("get_monthly_stats")
    /\ UNCHANGED <<today, configured, localFile, remoteFile, restaurants, history>>

\* what one rendering may show: the recommendation and the list under it.
\* sort_values is a function of the frame it is given: two equal frames
\* come out in the same order.
render_recommendation_tab(rows, visits, date, limit, now) ==
    LET scored     == calculate_scores(recommendation_candidates(rows, visits, date, now),
                                       visits, date, now)
        scored_all == calculate_scores(all_candidates(rows, visits, date, now),
                                       visits, date, now)
        orders     == IF scored_all = scored
                      THEN {<<p, p>> : p \in sort_values(scored)}
                      ELSE sort_values(scored) \X sort_values(scored_all)
    IN  {[recommendation |-> recommendation_dict(scored[o[1][1]]),
          alternatives |-> [i \in 1..Min(limit, Len(scored_all)) |->
                               alternative_dict(scored_all[o[2][i]])]] : o \in orders}

\* app.py render_recommendation_tab on a work day with a restaurant
\* available: get_recommendation and, further down, get_all_recommendations
\* of the same session state
RenderRecommendationTab ==
    /\ is_work_day(today)
    /\ get_available_restaurants(restaurants, today) # <<>>
    /\ \E limit \in Limits :
           /\ out' \in render_recommendation_tab(restaurants, history, today, limit, today)
           /\ last' = [Call("render_recommendation_tab") EXCEPT !.limit = limit]
    /\ UNCHANGED <<today, configured, localFile, remoteFile, restaurants, history>>

LogVisit == AddVisit(VisitArgs)
DeleteRow == DeleteVisit(VisitKeys)

Next ==
    \/ Tick
    \/ RefreshData
    \/ LogVisit
    \/ DeleteRow
    \/ GetRecommendation
    \/ GetAllRecommendations
    \/ ExplainRecommendation
    \/ GetMonthlyStats
    \/ RenderRecommendationTab

\* the recommender over a local visit store
Spec == Init /\ [][Next]_vars

\* the scorer on the session state, as get_recommendation calls it on the
\* rows it has kept
CalculateScores ==
    /\ out' = [scored |-> calculate_scores(restaurants, history, today, today)]
    /\ last' = Call("calculate_scores")
    /\ UNCHANGED <<today, configured, localFile, remoteFile, restaurants, history>>

BandInit ==
    /\ today = Oct28
    /\ configured = FALSE
    /\ \E h \in MonthHistories :
           /\ localFile = (IF h = <<>> THEN NoFile ELSE File(h))
           /\ history = h
    /\ remoteFile = NoFile
    /\ restaurants = BandRows
    /\ last = Call("init_session_state")
    /\ out = None

BandNext ==
    \/ Tick
    \/ GetMonthlyStats
    \/ CalculateScores

\* the statistics and the scorer over months of up to MaxMonthVisits visits
BandSpec == BandInit /\ [][BandNext]_vars

StoreInit ==
    /\ today = Oct28
    /\ configured \in BOOLEAN
    /\ localFile = NoFile
    /\ remoteFile = NoFile
    /\ restaurants = <<>>
    /\ history = <<>>
    /\ last = Call("init_session_state")
    /\ out = None

StoreAdd == AddVisit(StoreVisitArgs)
StoreDelete == DeleteVisit(StoreVisitKeys)

StoreNext ==
    \/ RefreshData
    \/ StoreAdd
    \/ StoreDelete

\* the visit store, with and without the GitHub repository behind it
StoreSpec == StoreInit /\ [][StoreNext]_vars

(***************************************************************************)
(* What the claims speak of, said without the code's own helpers: dates    *)
(* are compared as day ordinals, not as strings.                           *)
(***************************************************************************)
Recommended == last.op = "get_recommendation" /\ out # None

DayLabel(date) ==
    CASE Weekday(date) = 6 -> Sunday
      [] Weekday(date) = 0 -> Monday
      [] Weekday(date) = 1 -> Tuesday
      [] Weekday(date) = 2 -> Wednesday
      [] Weekday(date) = 3 -> Thursday
      [] OTHER -> <<>>

WorkDay(date) == Weekday(date) \in {6, 0, 1, 2, 3}

Eligible(r, date) ==
    \/ r.specific_day = <<>>
    \/ Lower(r.specific_day) = Lower(DayLabel(date))

EligibleRows == {i \in DOMAIN restaurants : Eligible(restaurants[i], today)}

VisitedWithin7(name) ==
    \E i \in DOMAIN history :
        history[i].restaurant = name /\ Strptime(history[i].date) >= today - 7

RowNamed(name) == {i \in DOMAIN restaurants : restaurants[i].name = name}

\* C1: on a date outside Sunday..Thursday, get_recommendation returns None
\* and get_all_recommendations returns the empty list, whatever the
\* restaurants and the history.
C1_NothingOffWorkDays ==
    /\ (last.op = "get_recommendation" /\ ~WorkDay(today)) => out = None
    /\ (last.op = "get_all_recommendations" /\ ~WorkDay(today)) => out.list = <<>>

C1_Witness ==
    /\ last.op = "get_recommendation"
    /\ ~WorkDay(today)
    /\ Len(restaurants) = 4
    /\ history # <<>>
    /\ out = None

\* C3: on a work day get_recommendation returns None exactly when no
\* restaurant is eligible that day; when every eligible restaurant was
\* visited within the trailing 7 days it still recommends one.
C3_EmptyIffNothingEligible ==
    (last.op = "get_recommendation" /\ WorkDay(today)) =>
        ((out = None) <=> (EligibleRows = {}))

C3_Witness ==
    /\ Recommended
    /\ WorkDay(today)
    /\ EligibleRows # {}
    /\ \A i \in EligibleRows : VisitedWithin7(restaurants[i].name)
    /\ VisitedWithin7(out.name)

\* C4: on a work day, if some eligible restaurant has no visit dated
\* today - 7 or later, the recommended restaurant has none either.
C4_FreshBeforeRepeat ==
    (Recommended /\ WorkDay(today)
        /\ \E i \in EligibleRows : ~VisitedWithin7(restaurants[i].name))
    => ~VisitedWithin7(out.name)

C4_Witness ==
    /\ Recommended
    /\ WorkDay(today)
    /\ \E i \in EligibleRows : ~VisitedWithin7(restaurants[i].name)
    /\ \E i \in EligibleRows :
           /\ VisitedWithin7(restaurants[i].name)
           /\ \E j \in DOMAIN history :
                  /\ history[j].restaurant = restaurants[i].name
                  /\ Strptime(history[j].date) = today - 7
    /\ ~VisitedWithin7(out.name)

\* C5: every restaurant get_recommendation or get_all_recommendations
\* returns is eligible on the date: its specific_day is empty or is the
\* day's label up to case. This holds in the forced-repeat fallback too.
C5_OnlyEligibleReturned ==
    /\ (Recommended =>
           \E i \in RowNamed(out.name) : Eligible(restaurants[i], today))
    /\ (last.op = "get_all_recommendations" =>
           \A k \in DOMAIN out.list :
               \E i \in RowNamed(out.list[k].name) : Eligible(restaurants[i], today))

C5_Witness ==
    /\ Recommended
    /\ \E i \in DOMAIN restaurants : ~Eligible(restaurants[i], today)
    /\ \E i \in RowNamed(out.name) :
           /\ restaurants[i].specific_day # <<>>
           /\ restaurants[i].specific_day # DayLabel(today)
    /\ \E i \in EligibleRows : VisitedWithin7(restaurants[i].name)

\* the restaurants get_recommendation chooses among, from the claim's words
Candidates ==
    LET fresh == {i \in EligibleRows : ~VisitedWithin7(restaurants[i].name)}
    IN  IF fresh = {} THEN EligibleRows ELSE fresh

LastVisit(name) ==
    {Strptime(history[i].date) : i \in {j \in DOMAIN history : history[j].restaurant = name}}

\* min(days since the last visit, 30), 30 for a restaurant never visited
Staleness(name) ==
    IF LastVisit(name) = {} THEN 30
    ELSE Min(today - (CHOOSE d \in LastVisit(name) : \A e \in LastVisit(name) : d >= e), 30)

ScoredRows == calculate_scores(restaurants, history, today, today)

\* C6: on Thursday every restaurant's final_score is its recency_score,
\* whatever its price and the monthly average, and its budget_score is 0.5;
\* so it is in the recommendation returned (there rounded to 2 decimals).
C6_ThursdayRecencyOnly ==
    Weekday(today) = 3 =>
        /\ \A i \in DOMAIN ScoredRows :
               /\ ScoredRows[i].final_score = ScoredRows[i].recency_score
               /\ ScoredRows[i].budget_score = 240
        /\ (Recommended =>
               /\ out.final_score = out.recency_score
               /\ out.budget_score = 50)

\* over budget on a Thursday, and a dearer candidate is recommended though a
\* cheaper one is as long unvisited
C6_Witness ==
    /\ Recommended
    /\ Weekday(today) = 3
    /\ get_monthly_stats(history, today).current_average > 250
    /\ out.price = 35
    /\ out.final_score = out.recency_score
    /\ \E i \in Candidates :
           /\ restaurants[i].price = 15
           /\ Staleness(restaurants[i].name) = Staleness(out.name)

\* C7 (as claimed): for every restaurant and every history add_visit (with
\* any date) and delete_visit lead to, recency_score is within [0, 1], does
\* not decrease as days_since_visit grows, and is 1 from 30 days on and for
\* a restaurant never visited.
C7_RecencyClamped ==
    \A i \in DOMAIN ScoredRows :
        /\ ScoredRows[i].recency_score >= 0
        /\ ScoredRows[i].recency_score <= 480
        /\ (ScoredRows[i].days_since_visit >= 30 => ScoredRows[i].recency_score = 480)
        /\ \A j \in DOMAIN ScoredRows :
               (ScoredRows[i].days_since_visit <= ScoredRows[j].days_since_visit
                   => ScoredRows[i].recency_score <= ScoredRows[j].recency_score)

Count(v, visits) == Cardinality({i \in DOMAIN visits : visits[i] = v})

SameMultiset(s, t) ==
    \A v \in {s[i] : i \in DOMAIN s} \cup {t[i] : i \in DOMAIN t} : Count(v, s) = Count(v, t)

HasKey(visits, date, restaurant) ==
    \E i \in DOMAIN visits : visits[i].date = date /\ visits[i].restaurant = restaurant

\* delete_visit(date, restaurant) has run right after add_visit(restaurant,
\* price, item, date); last.prior is the list that add_visit loaded, and
\* last.reread says that delete_visit loaded the list add_visit saved
RoundTrip == last.op = "delete_visit" /\ last.after_add

\* C2 (as claimed): add_visit followed by delete_visit of the same (date,
\* restaurant) leaves the visits that were there before the add, as a
\* multiset, whatever the history before.
C2_RoundTripRestores ==
    RoundTrip => SameMultiset(localFile.visits, last.prior)

\* C2 (amended): add_visit followed by delete_visit of the same (date,
\* restaurant) leaves the list that was there before the add, in its order,
\* if that list held no visit of this (date, restaurant) and delete_visit
\* loaded the list add_visit had saved.
C2_RoundTripWithoutDuplicates ==
    (RoundTrip /\ last.reread
        /\ ~HasKey(last.prior, last.date, last.restaurant))
    => /\ last.saved = last.prior
       /\ localFile.visits = last.prior

C2_Witness ==
    /\ RoundTrip
    /\ last.reread
    /\ ~HasKey(last.prior, last.date, last.restaurant)
    /\ last.prior # <<>>
    /\ \E i \in DOMAIN last.prior : last.prior[i].date = last.date
    /\ localFile.visits = last.prior

Saved == last.op \in {"add_visit", "delete_visit"}

\* C9 (as claimed): when the local file is written and the push to GitHub
\* fails, save_history, and so add_visit and delete_visit, report success.
C9_FailedPushReportsSuccess ==
    (Saved /\ last.pushed = "failed") => out.ok

\* C9 (amended): save_history always writes the local file, and reports
\* success exactly when no repository is configured or the push was
\* accepted: a failed push is reported as a failure, with the local file
\* already written and the repository left as it was.
C9_FailedPushReportsFailure ==
    Saved =>
        /\ localFile = File(last.saved)
        /\ out.ok = (last.pushed # "failed")
        /\ (last.pushed = "none") = ~configured
        /\ (last.pushed = "ok" => remoteFile = File(last.saved))

C9_Witness ==
    /\ last.op = "add_visit"
    /\ last.pushed = "failed"
    /\ out.ok = FALSE
    /\ localFile = File(last.saved)
    /\ remoteFile # localFile

Explained == last.op = "explain_recommendation"

BudgetClauses ==
    {i \in DOMAIN out.parts : out.parts[i].clause \in {"over", "under", "on_track", "thursday"}}

\* the band of the average the scorer reads, and the clause that goes with it
Band == LET avg == get_monthly_stats(history, today).current_average
        IN  IF avg > 250 THEN "over" ELSE IF avg < 200 THEN "under" ELSE "on_track"

\* C10 (as claimed): the explanation of a recommendation holds exactly one
\* budget clause: on Thursday the fixed message, on another day the clause
\* of the band (over, under, on track) the scorer puts the average in.
C10_OneBudgetClausePerBand ==
    Explained =>
        /\ Cardinality(BudgetClauses) = 1
        /\ \A i \in BudgetClauses :
               out.parts[i].clause = IF Weekday(today) = 3 THEN "thursday" ELSE Band

\* C10 (amended): the explanation holds at most one budget clause: on
\* Thursday the fixed message; on another day the clause of the scorer's
\* band, except that under budget (average < 20) there is a clause only for
\* a recommendation dearer than 25, and none otherwise.
C10_BudgetClauseUnlessCheapUnderBudget ==
    Explained =>
        /\ Cardinality(BudgetClauses) =
               IF Weekday(today) # 3 /\ Band = "under" /\ out.recommendation.price <= 25
               THEN 0 ELSE 1
        /\ \A i \in BudgetClauses :
               out.parts[i].clause = IF Weekday(today) = 3 THEN "thursday" ELSE Band

C10_Witness ==
    /\ Explained
    /\ Weekday(today) # 3
    /\ Band = "under"
    /\ out.recommendation.price <= 25
    /\ BudgetClauses = {}

(***************************************************************************)
(* The month's statistics.                                                 *)
(***************************************************************************)
\* the visits of the history dated in the month of today
ThisMonth ==
    {i \in DOMAIN history :
        /\ history[i].date[1] = 2026
        /\ MonthOf(Strptime(history[i].date), 1) = MonthOf(today, 1)}

RECURSIVE TotalOf(_)
TotalOf(S) ==
    IF S = {} THEN 0
    ELSE LET i == CHOOSE j \in S : TRUE IN history[i].price + TotalOf(S \ {i})

\* C11: after any sequence of add_visit and delete_visit the history read
\* is the list stored, and get_monthly_stats reports as days_visited the
\* number of its visits dated in the current month and as total_spent the
\* sum of their prices; with no visit in the current month it reports
\* total_spent 0, current_average 0 and status green.
C11_StatsCountThisMonth ==
    last.op = "get_monthly_stats" =>
        /\ history = localFile.visits
        /\ out.days_visited = Cardinality(ThisMonth)
        /\ out.total_spent = TotalOf(ThisMonth)
        /\ (ThisMonth = {} =>
               /\ out.total_spent = 0
               /\ out.current_average = 0
               /\ out.status = "green")

\* a visit of the month and one of another month, after a delete
C11_Witness ==
    /\ last.op = "get_monthly_stats"
    /\ ThisMonth # {}
    /\ \E i \in DOMAIN history : i \notin ThisMonth
    /\ out.days_visited = Cardinality(ThisMonth)
    /\ out.total_spent > 0

(***************************************************************************)
(* The list of recommendations against the single recommendation.          *)
(***************************************************************************)
Rendered == last.op = "render_recommendation_tab"

\* a list of at most n entries, one for each of the n first candidates in
\* an order of non-increasing final_score
TopOfCandidates(list, n) ==
    LET cands  == Candidates
        scored == ScoredRows
        score  == [i \in cands |-> scored[i].final_score]
        listed == {list[k].name : k \in DOMAIN list}
    IN  /\ Len(list) = Min(n, Cardinality(cands))
        /\ \A k \in DOMAIN list :
               \E i \in cands :
                   /\ restaurants[i].name = list[k].name
                   /\ Round2(score[i]) = list[k].final_score
                   /\ \A j \in cands :
                          restaurants[j].name \notin listed => score[j] <= score[i]
        /\ Cardinality(listed) = Len(list)
        /\ \A k, m \in DOMAIN list : k < m => list[k].final_score >= list[m].final_score

\* C12: on a work day get_all_recommendations(restaurants, history, date, n)
\* returns min(n, number of candidates) entries, in non-increasing order of
\* final_score, that are the best of the candidates get_recommendation
\* chooses among (eligible, not visited within 7 days, or all the eligible
\* ones if that leaves none); and in one rendering its first entry names
\* the restaurant get_recommendation returns.
C12_ListHeadsWithRecommendation ==
    /\ ((last.op = "get_all_recommendations" /\ WorkDay(today))
            => TopOfCandidates(out.list, last.limit))
    /\ (Rendered =>
           /\ TopOfCandidates(out.alternatives, last.limit)
           /\ out.alternatives # <<>>
           /\ out.alternatives[1].name = out.recommendation.name
           /\ out.alternatives[1].final_score = out.recommendation.final_score)

\* the recommended restaurant ties with another candidate, after some
\* visit, and the list is cut at n
C12_Witness ==
    /\ Rendered
    /\ \E i \in Candidates, j \in RowNamed(out.recommendation.name) :
           /\ i # j
           /\ ScoredRows[i].final_score = ScoredRows[j].final_score
    /\ history # <<>>
    /\ Len(out.alternatives) = last.limit
    /\ Cardinality(Candidates) > last.limit
    /\ out.alternatives[1].name = out.recommendation.name

(***************************************************************************)
(* The status band against the scorer's budget branch.                     *)
(***************************************************************************)
\* the band of the average total / count itself; green for an empty month
StatusOfMonth ==
    LET n     == Cardinality(ThisMonth)
        total == TotalOf(ThisMonth)
    IN  IF n = 0 \/ total < 20 * n THEN "green"
        ELSE IF total <= 25 * n THEN "yellow" ELSE "red"

Scored == last.op = "calculate_scores"

UsesOver  == \A i \in DOMAIN out.scored : out.scored[i].budget_score = 480 - 12 * out.scored[i].price
UsesUnder == \A i \in DOMAIN out.scored : out.scored[i].budget_score = 12 * out.scored[i].price
UsesFlat  == \A i \in DOMAIN out.scored : out.scored[i].budget_score = 240

\* C13 (as claimed): on a day other than Thursday, for every history, the
\* status is red exactly when calculate_scores uses 1 - price/40, green
\* (with a visit in the month) exactly when it uses price/40, and yellow
\* exactly when budget_score is 0.5 for every restaurant.
C13_StatusAgreesWithBudgetBranch ==
    (Scored /\ Weekday(today) # 3) =>
        /\ (StatusOfMonth = "red") = UsesOver
        /\ (StatusOfMonth = "yellow") = UsesFlat
        /\ (ThisMonth # {} => ((StatusOfMonth = "green") = UsesUnder))

(***************************************************************************)
(* Accepting a recommendation, and the recommendation after it.            *)
(***************************************************************************)
CandidateNames ==
    LET rows == recommendation_candidates(restaurants, history, today, today)
    IN  {rows[k].name : k \in DOMAIN rows}

====
